---- MODULE Spec2Model ----
(***************************************************************************)
(* Model of rocketflightsim/rocket_classes.py: the constructors of Motor,  *)
(* Rocket, LaunchConditions and Airbrakes, and the drag-area closure a     *)
(* Rocket exposes.                                                         *)
(*                                                                         *)
(* Python values are tagged records.  A number is an exact fraction n/d    *)
(* in lowest terms with d > 0; the three non-finite values a numpy float   *)
(* division can produce are kept with d = 0: 1/0 is inf, -1/0 is -inf and  *)
(* 0/0 is nan.  A dict is the sequence of its items in insertion order.    *)
(***************************************************************************)
EXTENDS Integers, Sequences, FiniteSets, TLC

VARIABLES call, obj, ret, hfunc_calls

vars == <<call, obj, ret, hfunc_calls>>

(***************************************************************************)
(* Bounds of the model.                                                    *)
(***************************************************************************)
MaxTime == 3

(***************************************************************************)
(* Python values.                                                          *)
(***************************************************************************)
None == [t |-> "None"]

Abs(i) == IF i < 0 THEN -i ELSE i

Sign(i) == IF i < 0 THEN -1 ELSE IF i > 0 THEN 1 ELSE 0

RECURSIVE GCD(_, _)
GCD(a, b) == IF b = 0 THEN a ELSE GCD(b, a % b)

\* The number n/d, d >= 0, in canonical form.
Num(n, d) ==
    IF d = 0 THEN [t |-> "num", n |-> Sign(n), d |-> 0]
    ELSE LET g == GCD(Abs(n), d)
         IN  [t |-> "num", n |-> n \div g, d |-> d \div g]

Int2Num(i) == Num(i, 1)

IsFinite(x) == x.d # 0

Neg(x) == Num(-x.n, x.d)

Add(x, y) ==
    IF x.d = 0 /\ y.d = 0
    THEN IF x.n = y.n THEN x ELSE Num(0, 0)
    ELSE Num(x.n * y.d + y.n * x.d, x.d * y.d)

Sub(x, y) == Add(x, Neg(y))

Mul(x, y) == Num(x.n * y.n, x.d * y.d)

\* Float division: a zero divisor gives inf, -inf or nan, never an exception.
Div(x, y) ==
    IF y.n < 0 THEN Num(-(x.n * y.d), x.d * (-y.n))
    ELSE Num(x.n * y.d, x.d * y.n)

Leq(x, y) == IsFinite(x) /\ IsFinite(y) /\ x.n * y.d <= y.n * x.d

\* bool(v): None, 0 and an empty dict are falsy; nan and callables are truthy.
Truthy(v) ==
    CASE v.t = "None" -> FALSE
      [] v.t = "num"  -> ~(v.n = 0 /\ v.d # 0)
      [] v.t = "dict" -> Len(v.items) > 0
      [] OTHER        -> TRUE

(***************************************************************************)
(* dicts                                                                   *)
(***************************************************************************)
Dict(items) == [t |-> "dict", items |-> items]

Keys(dct) == [i \in 1..Len(dct.items) |-> dct.items[i].k]

KeySet(dct) == {dct.items[i].k : i \in 1..Len(dct.items)}

Values(dct) == [i \in 1..Len(dct.items) |-> dct.items[i].v]

HasKey(dct, k) == k \in KeySet(dct)

\* dct[k], for a key the dict holds
Get(dct, k) == dct.items[CHOOSE i \in 1..Len(dct.items) : dct.items[i].k = k].v

\* dct[k] = v: an existing key keeps its position, a new key is appended
SetItem(dct, k, v) ==
    IF HasKey(dct, k)
    THEN Dict([i \in 1..Len(dct.items) |->
                  IF dct.items[i].k = k THEN [k |-> k, v |-> v] ELSE dct.items[i]])
    ELSE Dict(Append(dct.items, [k |-> k, v |-> v]))

Raise(exc) == [t |-> "raise", exc |-> exc]

(***************************************************************************)
(* Motor.__init__                                                          *)
(***************************************************************************)
RECURSIVE TrapzSum(_, _, _)
TrapzSum(y, x, i) ==
    IF i >= Len(x) THEN Int2Num(0)
    ELSE Add(Div(Mul(Sub(x[i+1], x[i]), Add(y[i+1], y[i])), Int2Num(2)),
             TrapzSum(y, x, i + 1))

\* trapz with the left-rectangle rule in place of the trapezoidal rule
RECURSIVE RectangleSum(_, _, _)
RectangleSum(y, x, i) ==
    IF i >= Len(x) THEN Int2Num(0)
    ELSE Add(Mul(Sub(x[i+1], x[i]), y[i]), RectangleSum(y, x, i + 1))

trapz_left_rectangle(y, x) == RectangleSum(y, x, 1)

\* np.trapz(y, x)
trapz(y, x) == TrapzSum(y, x, 1)

NumSeq(s) == [i \in 1..Len(s) |-> Int2Num(s[i])]

total_impulse(thrust_curve) == trapz(Values(thrust_curve), NumSeq(Keys(thrust_curve)))

SetMax(S) == CHOOSE m \in S : \A k \in S : k <= m

\* max(thrust_curve.keys()); raises ValueError on an empty dict
burn_time(thrust_curve) ==
    IF Len(thrust_curve.items) = 0 THEN Raise("ValueError")
    ELSE SetMax(KeySet(thrust_curve))

\* the loop body with the consumed fuel added instead of subtracted
FuelStep_adds(prev, thrust_t, thrust_prev, time_t, time_prev, impulse, fuel_mass) ==
    Add(prev,
        Mul(Div(Mul(Div(Add(thrust_t, thrust_prev), Int2Num(2)),
                    Sub(Int2Num(time_t), Int2Num(time_prev))),
                impulse),
            fuel_mass))

\* the loop body without the halving of the trapezoidal rule
FuelStep_no_half(prev, thrust_t, thrust_prev, time_t, time_prev, impulse, fuel_mass) ==
    Sub(prev,
        Mul(Div(Mul(Add(thrust_t, thrust_prev),
                    Sub(Int2Num(time_t), Int2Num(time_prev))),
                impulse),
            fuel_mass))

\* the right-hand side of the loop body
FuelStep(prev, thrust_t, thrust_prev, time_t, time_prev, impulse, fuel_mass) ==
    Sub(prev,
        Mul(Div(Mul(Div(Add(thrust_t, thrust_prev), Int2Num(2)),
                    Sub(Int2Num(time_t), Int2Num(time_prev))),
                impulse),
            fuel_mass))

\* for t in range(i, len(times)): ...   (times is 1-based here, so t starts at 2)
RECURSIVE FuelLoop(_, _, _, _, _, _)
FuelLoop(fuel_mass_curve, times, thrust_curve, impulse, fuel_mass, i) ==
    IF i > Len(times) THEN fuel_mass_curve
    ELSE IF ~HasKey(fuel_mass_curve, times[i-1]) THEN Raise("KeyError")
    ELSE FuelLoop(
            SetItem(fuel_mass_curve, times[i],
                    FuelStep(Get(fuel_mass_curve, times[i-1]),
                             Get(thrust_curve, times[i]),
                             Get(thrust_curve, times[i-1]),
                             times[i], times[i-1], impulse, fuel_mass)),
            times, thrust_curve, impulse, fuel_mass, i + 1)

\* the elif branch with the loop started one sample late
DerivedFuelMassCurve_late_start(thrust_curve, impulse, fuel_mass) ==
    FuelLoop(Dict(<<[k |-> 0, v |-> fuel_mass]>>), Keys(thrust_curve),
             thrust_curve, impulse, fuel_mass, 3)

\* the elif branch: the curve derived from fuel_mass
DerivedFuelMassCurve(thrust_curve, impulse, fuel_mass) ==
    FuelLoop(Dict(<<[k |-> 0, v |-> fuel_mass]>>), Keys(thrust_curve),
             thrust_curve, impulse, fuel_mass, 2)

\* the else branch without the entry at time 0
DefaultFuelMassCurve_burn_time_only(bt) == Dict(<<[k |-> bt, v |-> Int2Num(0)]>>)

\* the else branch: the dict display {0: 0, burn_time: 0}
DefaultFuelMassCurve(bt) ==
    SetItem(Dict(<<[k |-> 0, v |-> Int2Num(0)]>>), bt, Int2Num(0))

\* the branches with fuel_mass tested before fuel_mass_curve
FuelBranch_mass_first(fuel_mass_curve, fuel_mass) ==
    IF Truthy(fuel_mass) THEN "mass"
    ELSE IF Truthy(fuel_mass_curve) THEN "curve"
    ELSE "none"

\* which branch of the if/elif/else runs
FuelBranch(fuel_mass_curve, fuel_mass) ==
    IF Truthy(fuel_mass_curve) THEN "curve"
    ELSE IF Truthy(fuel_mass) THEN "mass"
    ELSE "none"

MotorObject(dry_mass, thrust_curve, impulse, bt, fuel_mass_curve, fuel_mass) ==
    IF fuel_mass_curve.t = "raise" THEN fuel_mass_curve
    ELSE [t |-> "Motor", dry_mass |-> dry_mass, thrust_curve |-> thrust_curve,
          total_impulse |-> impulse, burn_time |-> bt,
          fuel_mass_curve |-> fuel_mass_curve, fuel_mass |-> fuel_mass]

Motor(dry_mass, thrust_curve, fuel_mass_curve, fuel_mass) ==
    LET impulse == total_impulse(thrust_curve)
        bt      == burn_time(thrust_curve)
        branch  == FuelBranch(fuel_mass_curve, fuel_mass)
    IN  IF Len(thrust_curve.items) = 0 THEN bt
        ELSE CASE branch = "curve" ->
                    IF ~HasKey(fuel_mass_curve, 0) THEN Raise("KeyError")
                    ELSE MotorObject(dry_mass, thrust_curve, impulse, bt,
                                     fuel_mass_curve, Get(fuel_mass_curve, 0))
               [] branch = "mass" ->
                    MotorObject(dry_mass, thrust_curve, impulse, bt,
                                DerivedFuelMassCurve(thrust_curve, impulse, fuel_mass),
                                fuel_mass)
               [] OTHER ->
                    MotorObject(dry_mass, thrust_curve, impulse, bt,
                                DefaultFuelMassCurve(bt), Int2Num(0))

(***************************************************************************)
(* Default arguments: a parameter the caller leaves out takes the default  *)
(* of the signature.                                                       *)
(***************************************************************************)
Omitted == [t |-> "omitted"]

Default(arg, dflt) == IF arg = Omitted THEN dflt ELSE arg

(***************************************************************************)
(* Rocket.__init__ and the closure it stores as Cd_A_rocket                *)
(***************************************************************************)
Machs == {Num(0, 1), Num(1, 2), Num(1, 1), Num(2, 1)}

\* callable(v)
Callable(v) == v.t = "fn"

\* the def executed by the constructor: which body, and the two names it closes over
Closure(Cd_rocket_at_Ma, A_rocket) ==
    [t |-> "closure",
     body |-> IF Callable(Cd_rocket_at_Ma) THEN "function" ELSE "constant",
     Cd_rocket_at_Ma |-> Cd_rocket_at_Ma, A_rocket |-> A_rocket]

\* the closure with the area left out of the function body
Cd_A_rocket_fn_no_area(closure, Ma) ==
    IF closure.body = "function"
    THEN closure.Cd_rocket_at_Ma.f[Ma]
    ELSE Mul(closure.Cd_rocket_at_Ma, closure.A_rocket)

\* Cd_A_rocket_fn(Ma), either body
Cd_A_rocket_fn(closure, Ma) ==
    IF closure.body = "function"
    THEN Mul(closure.Cd_rocket_at_Ma.f[Ma], closure.A_rocket)
    ELSE Mul(closure.Cd_rocket_at_Ma, closure.A_rocket)

Rocket(rocket_mass, motor, A_rocket, Cd_rocket_at_Ma_arg, h_second_rail_button_arg) ==
    LET Cd_rocket_at_Ma      == Default(Cd_rocket_at_Ma_arg, Num(45, 100))
        h_second_rail_button == Default(h_second_rail_button_arg, Num(69, 100))
    IN  [t |-> "Rocket", rocket_mass |-> rocket_mass, motor |-> motor,
         A_rocket |-> A_rocket, Cd_rocket_at_Ma |-> Cd_rocket_at_Ma,
         h_second_rail_button |-> h_second_rail_button,
         dry_mass |-> Add(rocket_mass, motor.dry_mass),
         Cd_A_rocket |-> Closure(Cd_rocket_at_Ma, A_rocket)]

(***************************************************************************)
(* LaunchConditions.__init__                                               *)
(***************************************************************************)
\* con.F_gravity and con.T_lapse_rate, with the values the docstring gives
F_gravity == Num(980665, 100000)

T_lapse_rate == Num(-65, 10000)

\* hfunc.get_local_gravity(latitude, altitude): the value is left uninterpreted
get_local_gravity(latitude, altitude) ==
    [t |-> "get_local_gravity", latitude |-> latitude, altitude |-> altitude]

\* which branch of the if/elif/else runs
GravityBranch(local_gravity, latitude) ==
    IF Truthy(local_gravity) THEN "explicit"
    ELSE IF Truthy(latitude) THEN "latitude"
    ELSE "default"

LaunchConditions(launchpad_pressure, launchpad_temp, L_launch_rail, launch_rail_elevation_arg, launch_rail_direction_arg, local_gravity_arg, local_T_lapse_rate_arg, latitude_arg, altitude_arg, mean_wind_speed_arg, wind_heading_arg) ==
    LET local_gravity == Default(local_gravity_arg, None)
        latitude      == Default(latitude_arg, None)
        altitude      == Default(altitude_arg, Int2Num(0))
        branch        == GravityBranch(local_gravity, latitude)
    IN  [t |-> "LaunchConditions",
         launchpad_pressure |-> launchpad_pressure,
         launchpad_temp |-> Add(launchpad_temp, Num(27315, 100)),
         L_launch_rail |-> L_launch_rail,
         launch_rail_elevation |-> Default(launch_rail_elevation_arg, Int2Num(90)),
         launch_rail_direction |-> Default(launch_rail_direction_arg, Int2Num(0)),
         local_T_lapse_rate |-> Default(local_T_lapse_rate_arg, T_lapse_rate),
         local_gravity |->
             CASE branch = "explicit" -> local_gravity
               [] branch = "latitude" -> get_local_gravity(latitude, altitude)
               [] OTHER               -> F_gravity,
         mean_wind_speed |-> Default(mean_wind_speed_arg, Int2Num(0)),
         wind_heading |-> Default(wind_heading_arg, Int2Num(0))]

(***************************************************************************)
(* Airbrakes.__init__                                                      *)
(***************************************************************************)
Airbrakes(num_flaps, A_flap, Cd_brakes, max_deployment_angle, max_deployment_rate, max_retraction_rate_arg) ==
    LET max_retraction_rate == Default(max_retraction_rate_arg, None)
    IN  [t |-> "Airbrakes", num_flaps |-> num_flaps, A_flap |-> A_flap,
         Cd_brakes |-> Cd_brakes, max_deployment_rate |-> max_deployment_rate,
         max_deployment_angle |-> max_deployment_angle,
         max_retraction_rate |->
             IF Truthy(max_retraction_rate) THEN max_retraction_rate
             ELSE max_deployment_rate]

(***************************************************************************)
(* Inputs of the constructors.                                             *)
(***************************************************************************)
Times == 0..MaxTime

Thrusts == {-500, 0, 500, 1000}

RECURSIVE SortedSeq(_)
SortedSeq(S) ==
    IF S = {} THEN <<>>
    ELSE LET m == SetMax(S) IN Append(SortedSeq(S \ {m}), m)

Reverse(s) == [i \in 1..Len(s) |-> s[Len(s) + 1 - i]]

SwapLast(s) ==
    IF Len(s) < 2 THEN s
    ELSE [i \in 1..Len(s) |->
             IF i = Len(s) THEN s[Len(s) - 1]
             ELSE IF i = Len(s) - 1 THEN s[Len(s)] ELSE s[i]]

\* Key orders of the thrust curves tried: increasing, decreasing, and
\* increasing with the last two samples inserted out of order.
KeyOrders ==
    UNION {{SortedSeq(S), Reverse(SortedSeq(S)), SwapLast(SortedSeq(S))} : S \in SUBSET Times}

ThrustCurves ==
    UNION {{Dict([i \in 1..Len(ks) |-> [k |-> ks[i], v |-> Int2Num(th[i])]]) :
                th \in [1..Len(ks) -> Thrusts]} : ks \in KeyOrders}

FuelMasses == {None, Int2Num(0), Int2Num(2), Int2Num(-2)}

FuelMassCurves ==
    {None, Dict(<<>>),
     Dict(<<[k |-> 0, v |-> Int2Num(3)], [k |-> 1, v |-> Int2Num(1)]>>),
     Dict(<<[k |-> 1, v |-> Int2Num(1)]>>)}

MotorCalls ==
    [op : {"Motor"}, dry_mass : {Int2Num(1)}, thrust_curve : ThrustCurves,
     fuel_mass_curve : FuelMassCurves, fuel_mass : FuelMasses]

\* the motors handed to Rocket
RocketMotors ==
    {Motor(Int2Num(dm),
           Dict(<<[k |-> 0, v |-> Int2Num(0)], [k |-> 1, v |-> Int2Num(1000)],
                  [k |-> 2, v |-> Int2Num(0)]>>),
           None, fm) : dm \in {1, 3}, fm \in {None, Int2Num(2)}}

Fn(f) == [t |-> "fn", f |-> f]

\* drag coefficients: constants, and functions of the Mach number
DragCoefficients ==
    {Omitted, Int2Num(0), Num(3, 4),
     Fn([Ma \in Machs |-> Add(Num(3, 10), Div(Ma, Int2Num(10)))]),
     Fn([Ma \in Machs |-> Mul(Ma, Ma)])}

RocketCalls ==
    [op : {"Rocket"}, rocket_mass : {Int2Num(10), Int2Num(20)}, motor : RocketMotors,
     A_rocket : {Int2Num(0), Num(1, 50), Int2Num(2)},
     Cd_rocket_at_Ma : DragCoefficients,
     h_second_rail_button : {Omitted, Int2Num(0)}]

LaunchConditionsCalls ==
    [op : {"LaunchConditions"}, launchpad_pressure : {Int2Num(101325)},
     launchpad_temp : {Int2Num(-10), Int2Num(25)}, L_launch_rail : {Int2Num(5)},
     launch_rail_elevation : {Omitted, Int2Num(85)}, launch_rail_direction : {Omitted},
     local_gravity : {Omitted, None, Int2Num(0), Num(979, 100)},
     local_T_lapse_rate : {Omitted},
     latitude : {Omitted, None, Int2Num(0), Int2Num(45), Int2Num(-33)},
     altitude : {Omitted, Int2Num(0), Int2Num(1400)},
     mean_wind_speed : {Omitted}, wind_heading : {Omitted, Int2Num(270)}]

AirbrakesCalls ==
    [op : {"Airbrakes"}, num_flaps : {Int2Num(3)}, A_flap : {Num(1, 250)},
     Cd_brakes : {Int2Num(1)}, max_deployment_angle : {Int2Num(45)},
     max_deployment_rate : {Int2Num(0), Int2Num(5), Int2Num(10)},
     max_retraction_rate : {Omitted, None, Int2Num(0), Int2Num(5), Int2Num(20)}]

(***************************************************************************)
(* The state machine: one pending constructor call, then the object it     *)
(* built (or the exception it raised); a Rocket's drag-area function may   *)
(* then be called any number of times.  hfunc_calls logs the calls made to *)
(* the gravity model; ret is the last call of Cd_A_rocket and its result.  *)
(***************************************************************************)
Init ==
    /\ call \in MotorCalls \cup RocketCalls \cup LaunchConditionsCalls \cup AirbrakesCalls
    /\ obj = None
    /\ ret = None
    /\ hfunc_calls = <<>>

Motor__init__ ==
    /\ call.op = "Motor"
    /\ obj = None
    /\ obj' = Motor(call.dry_mass, call.thrust_curve, call.fuel_mass_curve, call.fuel_mass)
    /\ UNCHANGED <<call, ret, hfunc_calls>>

Rocket__init__ ==
    /\ call.op = "Rocket"
    /\ obj = None
    /\ obj' = Rocket(call.rocket_mass, call.motor, call.A_rocket, call.Cd_rocket_at_Ma,
                     call.h_second_rail_button)
    /\ UNCHANGED <<call, ret, hfunc_calls>>

Cd_A_rocket ==
    /\ obj.t = "Rocket"
    /\ \E Ma \in Machs :
          ret' = [Ma |-> Ma, value |-> Cd_A_rocket_fn(obj.Cd_A_rocket, Ma)]
    /\ UNCHANGED <<call, obj, hfunc_calls>>

LaunchConditions__init__ ==
    /\ call.op = "LaunchConditions"
    /\ obj = None
    /\ obj' = LaunchConditions(call.launchpad_pressure, call.launchpad_temp,
                               call.L_launch_rail, call.launch_rail_elevation,
                               call.launch_rail_direction, call.local_gravity,
                               call.local_T_lapse_rate, call.latitude, call.altitude,
                               call.mean_wind_speed, call.wind_heading)
    /\ hfunc_calls' =
          IF GravityBranch(Default(call.local_gravity, None),
                           Default(call.latitude, None)) = "latitude"
          THEN Append(hfunc_calls, <<Default(call.latitude, None),
                                     Default(call.altitude, Int2Num(0))>>)
          ELSE hfunc_calls
    /\ UNCHANGED <<call, ret>>

Airbrakes__init__ ==
    /\ call.op = "Airbrakes"
    /\ obj = None
    /\ obj' = Airbrakes(call.num_flaps, call.A_flap, call.Cd_brakes,
                        call.max_deployment_angle, call.max_deployment_rate,
                        call.max_retraction_rate)
    /\ UNCHANGED <<call, ret, hfunc_calls>>

Next ==
    \/ Motor__init__
    \/ Rocket__init__
    \/ Cd_A_rocket
    \/ LaunchConditions__init__
    \/ Airbrakes__init__

Spec == Init /\ [][Next]_vars

(***************************************************************************)
(* Vocabulary of the properties.                                           *)
(***************************************************************************)
MotorCalled == call.op = "Motor" /\ obj # None

MotorBuilt == call.op = "Motor" /\ obj.t = "Motor"

\* the constructor took the elif branch: the curve is derived from fuel_mass
DerivedCase == call.op = "Motor" /\ FuelBranch(call.fuel_mass_curve, call.fuel_mass) = "mass"

\* the constructor was given neither a fuel_mass_curve nor a fuel_mass
NeitherGiven == call.op = "Motor" /\ call.fuel_mass_curve = None /\ call.fuel_mass = None

Samples(thrust_curve) == Len(thrust_curve.items)

StartsAtZero(thrust_curve) ==
    Samples(thrust_curve) >= 1 /\ thrust_curve.items[1].k = 0

StrictlyIncreasing(thrust_curve) ==
    \A i \in 1..(Samples(thrust_curve) - 1) :
        thrust_curve.items[i].k < thrust_curve.items[i+1].k

NonNegativeThrust(thrust_curve) ==
    \A i \in 1..Samples(thrust_curve) : thrust_curve.items[i].v.n >= 0

\* the thrust curves claims C2 and C10 speak of
WellFormed(thrust_curve) ==
    /\ StartsAtZero(thrust_curve)
    /\ StrictlyIncreasing(thrust_curve)
    /\ NonNegativeThrust(thrust_curve)
    /\ total_impulse(thrust_curve) # Int2Num(0)

Positive(x) == x.t = "num" /\ x.n > 0

Min2(x, y) == IF Leq(x, y) THEN x ELSE y

Max2(x, y) == IF Leq(x, y) THEN y ELSE x

\* consecutive samples i-1, i of the built motor obey the depletion rule, stated
\* without division: (prev - cur) * 2 * total_impulse = (thrust sum) * dt * fuel_mass
StepRule(i) ==
    LET ks   == Keys(call.thrust_curve)
        prev == Get(obj.fuel_mass_curve, ks[i-1])
        cur  == Get(obj.fuel_mass_curve, ks[i])
    IN  Mul(Mul(Sub(prev, cur), Int2Num(2)), obj.total_impulse)
          = Mul(Mul(Add(Get(call.thrust_curve, ks[i]), Get(call.thrust_curve, ks[i-1])),
                    Int2Num(ks[i] - ks[i-1])),
                call.fuel_mass)

NonIncreasingStep(i) ==
    LET ks == Keys(call.thrust_curve)
    IN  Leq(Get(obj.fuel_mass_curve, ks[i]), Get(obj.fuel_mass_curve, ks[i-1]))

DerivedCurveShape ==
    /\ obj.t = "Motor"
    /\ Get(obj.fuel_mass_curve, 0) = call.fuel_mass
    /\ \A i \in 2..Samples(call.thrust_curve) : NonIncreasingStep(i) /\ StepRule(i)

(***************************************************************************)
(* C1.  As claimed: every Motor that is built has a fuel_mass_curve whose  *)
(* time keys are exactly the thrust curve's, whichever of fuel_mass_curve  *)
(* and fuel_mass was supplied.                                             *)
(***************************************************************************)
C1_SameKeysAlways ==
    MotorBuilt => KeySet(obj.fuel_mass_curve) = KeySet(call.thrust_curve)

(***************************************************************************)
(* C1, amended.  When the curve is derived from a non-zero fuel_mass (no   *)
(* non-empty fuel_mass_curve given) and the thrust curve has at least two  *)
(* samples or its first key is 0, every Motor that is built has a          *)
(* fuel_mass_curve whose time keys are exactly the thrust curve's.         *)
(***************************************************************************)
C1_SameKeysWhenDerived ==
    (MotorBuilt /\ DerivedCase
       /\ (Samples(call.thrust_curve) >= 2 \/ StartsAtZero(call.thrust_curve)))
    => KeySet(obj.fuel_mass_curve) = KeySet(call.thrust_curve)

C1_Witness ==
    /\ MotorBuilt /\ DerivedCase
    /\ Samples(call.thrust_curve) = MaxTime + 1
    /\ KeySet(obj.fuel_mass_curve) = Times

(***************************************************************************)
(* C2.  As claimed: a curve derived from any non-zero fuel_mass over a     *)
(* well-formed thrust curve starts at fuel_mass, never increases from one  *)
(* sample to the next, and each step subtracts the interval's share of the *)
(* total impulse times fuel_mass.                                          *)
(***************************************************************************)
C2_DerivedCurveNonZeroMass ==
    (MotorCalled /\ DerivedCase /\ WellFormed(call.thrust_curve)) => DerivedCurveShape

(***************************************************************************)
(* C2, amended.  The same for a positive fuel_mass: the curve starts at    *)
(* fuel_mass, is non-increasing across consecutive samples, and each step  *)
(* subtracts (thrust[t_i] + thrust[t_{i-1}])/2 * (t_i - t_{i-1}) /         *)
(* total_impulse * fuel_mass.                                              *)
(***************************************************************************)
C2_DerivedCurvePositiveMass ==
    (MotorCalled /\ DerivedCase /\ WellFormed(call.thrust_curve) /\ Positive(call.fuel_mass))
    => DerivedCurveShape

C2_Witness ==
    /\ MotorBuilt /\ DerivedCase /\ WellFormed(call.thrust_curve)
    /\ Positive(call.fuel_mass)
    /\ Samples(call.thrust_curve) >= 3
    /\ \E i \in 2..Samples(call.thrust_curve) :
          Get(obj.fuel_mass_curve, Keys(call.thrust_curve)[i])
            # Get(obj.fuel_mass_curve, Keys(call.thrust_curve)[i-1])

(***************************************************************************)
(* C3.  As claimed, the worked example: thrust curve {0: 0, 1: 1000,       *)
(* 2: 500, 3: 0} with fuel_mass 2 and no fuel_mass_curve gives burn_time   *)
(* 3, total impulse 1750 and a fuel mass at t = 1 of                       *)
(* 2 - (0+1000)/2*1/1750*2, which is 10/7, about 1.4286.                   *)
(***************************************************************************)
ExampleThrustCurve ==
    Dict(<<[k |-> 0, v |-> Int2Num(0)], [k |-> 1, v |-> Int2Num(1000)],
           [k |-> 2, v |-> Int2Num(500)], [k |-> 3, v |-> Int2Num(0)]>>)

ExampleCall ==
    /\ call.op = "Motor"
    /\ call.thrust_curve = ExampleThrustCurve
    /\ call.fuel_mass_curve = None
    /\ call.fuel_mass = Int2Num(2)

\* |x - p/q| <= 1/20000: x rounds to p/q at four decimals
About(x, p, q) ==
    /\ Leq(Sub(Num(p, q), Num(1, 20000)), x)
    /\ Leq(x, Add(Num(p, q), Num(1, 20000)))

C3_Example ==
    (ExampleCall /\ obj # None) =>
        /\ obj.t = "Motor"
        /\ obj.burn_time = 3
        /\ obj.total_impulse = Int2Num(1750)
        /\ Get(obj.fuel_mass_curve, 1) =
              Sub(Int2Num(2),
                  Mul(Div(Mul(Div(Int2Num(0 + 1000), Int2Num(2)), Int2Num(1)),
                          Int2Num(1750)),
                      Int2Num(2)))
        /\ About(Get(obj.fuel_mass_curve, 1), 14286, 10000)

(***************************************************************************)
(* C3, amended.  The same example gives burn_time 3, total impulse 1500    *)
(* (500 + 750 + 250 by the trapezoidal rule) and a fuel mass at t = 1 of   *)
(* 2 - (0+1000)/2*1/1500*2, which is 4/3, about 1.3333.                    *)
(***************************************************************************)
C3_ExampleCorrected ==
    (ExampleCall /\ obj # None) =>
        /\ obj.t = "Motor"
        /\ obj.burn_time = 3
        /\ obj.total_impulse = Int2Num(1500)
        /\ Get(obj.fuel_mass_curve, 1) =
              Sub(Int2Num(2),
                  Mul(Div(Mul(Div(Int2Num(0 + 1000), Int2Num(2)), Int2Num(1)),
                          Int2Num(1500)),
                      Int2Num(2)))
        /\ About(Get(obj.fuel_mass_curve, 1), 13333, 10000)

C3_Witness == ExampleCall /\ obj.t = "Motor" /\ Get(obj.fuel_mass_curve, 1) = Num(4, 3)

(***************************************************************************)
(* C4.  A non-empty fuel_mass_curve wins over any fuel_mass: the Motor     *)
(* built stores the supplied curve unchanged and its value at time 0 as    *)
(* fuel_mass, whatever fuel_mass was passed; and a Motor is built whenever *)
(* the supplied curve has a value at time 0 and the thrust curve is not    *)
(* empty.                                                                  *)
(***************************************************************************)
C4_SuppliedCurveWins ==
    (MotorCalled /\ Truthy(call.fuel_mass_curve)) =>
        /\ obj.t = "Motor" =>
              /\ obj.fuel_mass_curve = call.fuel_mass_curve
              /\ obj.fuel_mass = Get(call.fuel_mass_curve, 0)
        /\ (HasKey(call.fuel_mass_curve, 0) /\ Samples(call.thrust_curve) > 0)
              => obj.t = "Motor"

C4_Witness ==
    /\ MotorBuilt /\ Truthy(call.fuel_mass_curve)
    /\ call.fuel_mass = Int2Num(2)
    /\ obj.fuel_mass = Int2Num(3)
    /\ KeySet(obj.fuel_mass_curve) # KeySet(call.thrust_curve)

(***************************************************************************)
(* C5.  As claimed: with neither fuel_mass_curve nor fuel_mass, over any   *)
(* non-empty thrust curve, fuel_mass is 0 and the curve has exactly two    *)
(* entries, at 0 and at burn_time, both 0.                                 *)
(***************************************************************************)
C5_TwoEntries ==
    (MotorCalled /\ NeitherGiven /\ Samples(call.thrust_curve) > 0) =>
        /\ obj.t = "Motor"
        /\ obj.fuel_mass = Int2Num(0)
        /\ Len(obj.fuel_mass_curve.items) = 2
        /\ KeySet(obj.fuel_mass_curve) = {0, obj.burn_time}
        /\ \A k \in KeySet(obj.fuel_mass_curve) : Get(obj.fuel_mass_curve, k) = Int2Num(0)

(***************************************************************************)
(* C5, amended.  With neither given, over any non-empty thrust curve,      *)
(* fuel_mass is 0 and the curve holds value 0 at time 0 and at burn_time   *)
(* and nothing else: two entries when burn_time is not 0, the single entry *)
(* {0: 0} when burn_time is 0.                                             *)
(***************************************************************************)
C5_ZeroCurve ==
    (MotorCalled /\ NeitherGiven /\ Samples(call.thrust_curve) > 0) =>
        /\ obj.t = "Motor"
        /\ obj.fuel_mass = Int2Num(0)
        /\ obj.burn_time = SetMax(KeySet(call.thrust_curve))
        /\ KeySet(obj.fuel_mass_curve) = {0, obj.burn_time}
        /\ Len(obj.fuel_mass_curve.items) = IF obj.burn_time = 0 THEN 1 ELSE 2
        /\ \A k \in KeySet(obj.fuel_mass_curve) : Get(obj.fuel_mass_curve, k) = Int2Num(0)

C5_Witness ==
    /\ MotorBuilt /\ NeitherGiven
    /\ Samples(call.thrust_curve) >= 3
    /\ obj.burn_time = MaxTime
    /\ Len(obj.fuel_mass_curve.items) = 2

(***************************************************************************)
(* C6.  As claimed: deriving the curve from a non-zero fuel_mass over a    *)
(* thrust curve whose trapezoidal integral is zero raises an error, so no  *)
(* Motor whose curve was computed by dividing by zero is built.  (Stated   *)
(* for curves of at least two samples whose first key is 0, where the loop *)
(* body does reach the division.)                                          *)
(***************************************************************************)
C6_ZeroImpulseRaises ==
    (MotorCalled /\ DerivedCase /\ Samples(call.thrust_curve) >= 2
       /\ StartsAtZero(call.thrust_curve)
       /\ total_impulse(call.thrust_curve) = Int2Num(0))
    => obj.t = "raise"

(***************************************************************************)
(* C7.  As claimed: a provided local_gravity (0 included) is stored as-is; *)
(* otherwise a provided latitude (0 included) yields the gravity model's   *)
(* value for (latitude, altitude), altitude 0 when left out; otherwise the *)
(* standard gravity is stored; and the gravity model is called in the      *)
(* second case only.                                                       *)
(***************************************************************************)
Provided(arg) == arg # Omitted /\ arg # None

C7_GravityPrecedence ==
    (call.op = "LaunchConditions" /\ obj # None) =>
        IF Provided(call.local_gravity)
        THEN obj.local_gravity = call.local_gravity /\ hfunc_calls = <<>>
        ELSE IF Provided(call.latitude)
        THEN /\ obj.local_gravity =
                  get_local_gravity(call.latitude, Default(call.altitude, Int2Num(0)))
             /\ hfunc_calls = <<<<call.latitude, Default(call.altitude, Int2Num(0))>>>>
        ELSE obj.local_gravity = F_gravity /\ hfunc_calls = <<>>

(***************************************************************************)
(* C8.  Cd_A_rocket(Ma) returns Cd_rocket_at_Ma * A_rocket, whatever Ma    *)
(* is, for a Rocket built with a constant coefficient (0.45 when left      *)
(* out), and Cd_rocket_at_Ma(Ma) * A_rocket for one built with a function. *)
(***************************************************************************)
C8_DragArea ==
    (call.op = "Rocket" /\ ret # None) =>
        LET Cd == Default(call.Cd_rocket_at_Ma, Num(45, 100))
        IN  ret.value = IF Cd.t = "fn" THEN Mul(Cd.f[ret.Ma], call.A_rocket)
                        ELSE Mul(Cd, call.A_rocket)

C8_Witness ==
    /\ call.op = "Rocket" /\ ret # None
    /\ call.Cd_rocket_at_Ma.t = "fn"
    /\ ret.Ma = Num(1, 2)
    /\ ret.value = Num(7, 1000)

(***************************************************************************)
(* C9.  As claimed: max_retraction_rate is stored as max_deployment_rate   *)
(* when left out and as supplied whenever supplied, whatever its value (0  *)
(* included); max_deployment_rate is stored unchanged.                     *)
(***************************************************************************)
C9_RetractionRate ==
    (call.op = "Airbrakes" /\ obj # None) =>
        /\ obj.max_deployment_rate = call.max_deployment_rate
        /\ obj.max_retraction_rate =
              IF Provided(call.max_retraction_rate) THEN call.max_retraction_rate
              ELSE call.max_deployment_rate

(***************************************************************************)
(* C10.  In exact arithmetic a curve derived from a non-zero fuel_mass     *)
(* over a well-formed thrust curve of at least two samples burns the whole *)
(* fuel mass: its value at burn_time is 0, and every value lies between 0  *)
(* and fuel_mass inclusive.                                                *)
(***************************************************************************)
C10_WholeMassBurnt ==
    (MotorCalled /\ DerivedCase /\ WellFormed(call.thrust_curve)
       /\ Samples(call.thrust_curve) >= 2)
    => /\ obj.t = "Motor"
       /\ Get(obj.fuel_mass_curve, obj.burn_time) = Int2Num(0)
       /\ \A k \in KeySet(obj.fuel_mass_curve) :
             /\ Leq(Min2(Int2Num(0), call.fuel_mass), Get(obj.fuel_mass_curve, k))
             /\ Leq(Get(obj.fuel_mass_curve, k), Max2(Int2Num(0), call.fuel_mass))

C10_Witness ==
    /\ MotorBuilt /\ DerivedCase /\ WellFormed(call.thrust_curve)
    /\ Samples(call.thrust_curve) = MaxTime + 1
    /\ Get(obj.fuel_mass_curve, obj.burn_time) = Int2Num(0)
    /\ \E k \in KeySet(obj.fuel_mass_curve) :
          Get(obj.fuel_mass_curve, k) \notin {Int2Num(0), call.fuel_mass}

====
